---- MODULE Spec2Model ----
(***************************************************************************)
(* Orchix: an intercepting reverse proxy.  The module models               *)
(*   - the streaming transducer  (src/src/streaming.rs, StreamingAnalyzer) *)
(*   - the policy engine         (src/src/interception.rs, Interceptor)    *)
(*   - the response cache        (src/src/cache.rs)                        *)
(*   - the route resolver        (src/src/routing.rs)                      *)
(*   - the request gatekeeper    (src/src/networking.rs, proxy_handler)    *)
(* Byte strings are TLA+ strings; a byte is a string of length one.        *)
(***************************************************************************)
EXTENDS Integers, Sequences, FiniteSets, TLC

(***************************************************************************)
(* Byte-string helpers (Rust str / BytesMut primitives used by the code).  *)
(***************************************************************************)

\* the byte at 1-based position i of s, "" outside s
Ch(s, i) == IF i >= 1 /\ i <= Len(s) THEN SubSeq(s, i, i) ELSE ""

\* s[i..] (1-based, to the end)
From(s, i) == IF i > Len(s) THEN "" ELSE SubSeq(s, i, Len(s))

\* str::starts_with
starts_with(s, p) == Len(s) >= Len(p) /\ SubSeq(s, 1, Len(p)) = p

\* the ASCII members of Unicode White_Space, which str::trim removes
WhiteSpace == {" ", "\t", "\n", "\r", "\f"}

RECURSIVE trim_start(_)
trim_start(s) ==
    IF Len(s) > 0 /\ Ch(s, 1) \in WhiteSpace THEN trim_start(From(s, 2)) ELSE s

RECURSIVE trim_end(_)
trim_end(s) ==
    IF Len(s) > 0 /\ Ch(s, Len(s)) \in WhiteSpace
    THEN trim_end(SubSeq(s, 1, Len(s) - 1)) ELSE s

\* str::trim
trim(s) == trim_end(trim_start(s))

\* buffer.iter().position(|&b| b == b'\n'): 1-based index of the first line
\* feed at or after i, 0 when there is none
RECURSIVE position_nl(_, _)
position_nl(s, i) ==
    IF i > Len(s) THEN 0
    ELSE IF Ch(s, i) = "\n" THEN i
    ELSE position_nl(s, i + 1)

(***************************************************************************)
(* serde_json::Value and serde_json::from_str.  Values are tagged records; *)
(* Absent is Option::None.  The parser covers objects, arrays, strings     *)
(* without escape sequences, integers and the three literals, which is the *)
(* JSON that occurs in the modelled inputs.                                *)
(***************************************************************************)
Absent     == [t |-> "absent"]
JNull      == [t |-> "null"]
JBool(b)   == [t |-> "bool", b |-> b]
JNum(n)    == [t |-> "num", n |-> n]
JStr(x)    == [t |-> "str", s |-> x]
JArr(a)    == [t |-> "arr", a |-> a]
JObj(f)    == [t |-> "obj", f |-> f]

\* Value::get(&str): a member of an object, None for anything else
get(v, key) ==
    IF v.t = "obj" THEN (IF key \in DOMAIN v.f THEN v.f[key] ELSE Absent)
    ELSE Absent

\* Value::as_array / Value::as_str succeed
is_array(v) == v.t = "arr"
is_str(v)   == v.t = "str"

Digits == {"0", "1", "2", "3", "4", "5", "6", "7", "8", "9"}
JsonWs == {" ", "\t", "\n", "\r"}

RECURSIVE skip_ws(_, _)
skip_ws(s, i) == IF Ch(s, i) \in JsonWs THEN skip_ws(s, i + 1) ELSE i

PFail      == [ok |-> FALSE, v |-> Absent, i |-> 0]
POk(v, i)  == [ok |-> TRUE, v |-> v, i |-> i]

\* the index of the closing quote of a string whose content starts at i;
\* 0 when unterminated or when it holds a backslash or a control byte
RECURSIVE string_end(_, _)
string_end(s, i) ==
    IF i > Len(s) THEN 0
    ELSE IF Ch(s, i) = "\"" THEN i
    ELSE IF Ch(s, i) \in {"\\", "\n", "\r", "\t", "\f"} THEN 0
    ELSE string_end(s, i + 1)

RECURSIVE digits_end(_, _)
digits_end(s, i) == IF Ch(s, i) \in Digits THEN digits_end(s, i + 1) ELSE i

string_to(s, i, e) ==
    IF Ch(s, i) = "\"" /\ e > 0
    THEN POk(JStr(IF e = i + 1 THEN "" ELSE SubSeq(s, i + 1, e - 1)), e + 1)
    ELSE PFail

\* a JSON string starting at the opening quote at i
parse_string(s, i) == string_to(s, i, string_end(s, i + 1))

\* an integer at i whose digits run from d to before e
number_to(s, i, d, e) ==
    IF e = d THEN PFail
    ELSE IF Ch(s, d) = "0" /\ e > d + 1 THEN PFail
    ELSE IF Ch(s, e) \in {".", "e", "E"} THEN PFail
    ELSE POk(JNum(SubSeq(s, i, e - 1)), e)

number_from(s, i, d) == number_to(s, i, d, digits_end(s, d))

\* an integer starting at i
parse_number(s, i) == number_from(s, i, IF Ch(s, i) = "-" THEN i + 1 ELSE i)

parse_literal(s, i, word, v) ==
    IF starts_with(From(s, i), word) THEN POk(v, i + Len(word)) ELSE PFail

RECURSIVE parse_value(_, _)
RECURSIVE parse_members(_, _, _)
RECURSIVE parse_elements(_, _, _)

\* after a member's value m: f holds the members read so far
members_next(s, n, f) ==
    IF Ch(s, n) = "}" THEN POk(JObj(f), n + 1)
    ELSE IF Ch(s, n) = "," THEN parse_members(s, skip_ws(s, n + 1), f)
    ELSE PFail

\* a repeated key keeps its last value
members_after_value(s, key, m, acc) ==
    IF ~m.ok THEN PFail
    ELSE members_next(s, skip_ws(s, m.i), (key :> m.v) @@ acc)

members_after_key(s, k, c, acc) ==
    IF ~k.ok \/ Ch(s, c) # ":" THEN PFail
    ELSE members_after_value(s, k.v.s, parse_value(s, c + 1), acc)

members_from_key(s, k, acc) ==
    members_after_key(s, k, IF k.ok THEN skip_ws(s, k.i) ELSE 0, acc)

\* the members of an object from the key at i on; acc holds those read so far
parse_members(s, i, acc) == members_from_key(s, parse_string(s, i), acc)

elements_next(s, n, acc) ==
    IF Ch(s, n) = "]" THEN POk(JArr(acc), n + 1)
    ELSE IF Ch(s, n) = "," THEN parse_elements(s, n + 1, acc)
    ELSE PFail

elements_after_value(s, m, acc) ==
    IF ~m.ok THEN PFail
    ELSE elements_next(s, skip_ws(s, m.i), Append(acc, m.v))

\* the elements of an array from the value at i on
parse_elements(s, i, acc) == elements_after_value(s, parse_value(s, i), acc)

\* the value whose first byte c is at j
value_at(s, j, c) ==
    IF c = "{" THEN
        (IF Ch(s, skip_ws(s, j + 1)) = "}"
         THEN POk(JObj(<< >>), skip_ws(s, j + 1) + 1)
         ELSE parse_members(s, skip_ws(s, j + 1), << >>))
    ELSE IF c = "[" THEN
        (IF Ch(s, skip_ws(s, j + 1)) = "]"
         THEN POk(JArr(<< >>), skip_ws(s, j + 1) + 1)
         ELSE parse_elements(s, j + 1, << >>))
    ELSE IF c = "\"" THEN parse_string(s, j)
    ELSE IF c = "t" THEN parse_literal(s, j, "true", JBool(TRUE))
    ELSE IF c = "f" THEN parse_literal(s, j, "false", JBool(FALSE))
    ELSE IF c = "n" THEN parse_literal(s, j, "null", JNull)
    ELSE IF c = "-" \/ c \in Digits THEN parse_number(s, j)
    ELSE PFail

value_from(s, j) == value_at(s, j, Ch(s, j))

parse_value(s, i) == value_from(s, skip_ws(s, i))

\* one value, then only white space
whole_value(s, r) ==
    IF r.ok /\ skip_ws(s, r.i) = Len(s) + 1
    THEN [ok |-> TRUE, v |-> r.v]
    ELSE [ok |-> FALSE, v |-> Absent]

\* serde_json::from_str / from_slice
from_str(s) == whole_value(s, parse_value(s, 1))

(***************************************************************************)
(* Interception policy engine (src/src/interception.rs).                   *)
(***************************************************************************)

\* InterceptionConfig.forbidden_tools of the modelled deployment
forbidden_tools == {"rm_rf", "drop_db"}

POLICY_OK == [ok |-> TRUE, msg |-> ""]
Violation(m) == [ok |-> FALSE, msg |-> m]

tool_message(name) ==
    "Tool '" \o name \o "' is blocked by Orchix security policy"
function_message(name) ==
    "Function '" \o name \o "' is blocked by Orchix security policy"

\* a name that is a string of the forbidden set
forbidden_name(name) == is_str(name) /\ name.s \in forbidden_tools

\* call.get("function").and_then(|f| f.get("name")).and_then(|n| n.as_str())
call_name(call) == get(get(call, "function"), "name")

\* first_forbidden going through the whole array and keeping the last hit
RECURSIVE last_forbidden(_, _)
last_forbidden(calls, i) ==
    IF i > Len(calls) THEN 0
    ELSE IF last_forbidden(calls, i + 1) # 0 THEN last_forbidden(calls, i + 1)
    ELSE IF forbidden_name(call_name(calls[i])) THEN i
    ELSE 0

\* the for loop over tool_calls: the index of the first forbidden call at or
\* after i, 0 when there is none
RECURSIVE first_forbidden(_, _)
first_forbidden(calls, i) ==
    IF i > Len(calls) THEN 0
    ELSE IF forbidden_name(call_name(calls[i])) THEN i
    ELSE first_forbidden(calls, i + 1)

\* the legacy functions API: body.function_call.name
validate_function(name) ==
    IF forbidden_name(name) THEN Violation(function_message(name.s))
    ELSE POLICY_OK

\* the outcome given the index hit of the first forbidden tool call
validate_from(body, calls, hit) ==
    IF hit > 0 THEN Violation(tool_message(call_name(calls[hit]).s))
    ELSE validate_function(get(get(body, "function_call"), "name"))

validate_calls(body, tool_calls) ==
    IF is_array(tool_calls)
    THEN validate_from(body, tool_calls.a, first_forbidden(tool_calls.a, 1))
    ELSE validate_from(body, << >>, 0)

\* Interceptor::validate_tools
validate_tools(body) == validate_calls(body, get(body, "tool_calls"))

(***************************************************************************)
(* Response cache (src/src/cache.rs).                                      *)
(***************************************************************************)

\* hex::encode(Sha256::digest(input)): the digest is taken as collision-free,
\* an injective tagging of its input
sha256_hex(input) == "sha256(" \o input \o ")"

\* CacheKey::new: the hasher is fed the path bytes and then the body bytes
CacheKey_new(path, body) == sha256_hex(path \o body)

CachedResponse(status, content_type, body) ==
    [status |-> status, headers |-> ("content-type" :> content_type),
     body |-> body]

\* OrchixCache::get on the map c (<< >> is the empty cache)
cache_get(c, key) ==
    IF key \in DOMAIN c THEN [some |-> TRUE, v |-> c[key]]
    ELSE [some |-> FALSE, v |-> CachedResponse(0, "", "")]

\* cache_set keeping the entry a key already has
cache_set_if_absent(c, key, response) ==
    [k \in DOMAIN c \cup {key} |-> IF k \in DOMAIN c THEN c[k] ELSE response]

\* OrchixCache::set: insert, replacing an entry of the same key
cache_set(c, key, response) ==
    [k \in DOMAIN c \cup {key} |-> IF k = key THEN response ELSE c[k]]

(***************************************************************************)
(* Streaming transducer (src/src/streaming.rs).                            *)
(***************************************************************************)

\* Result<Event, axum::Error> items of pending_events
OkEvent(data) == [ok |-> TRUE, data |-> data]
ErrItem(msg)  == [ok |-> FALSE, data |-> msg]

\* Option<(OrchixCache, CacheKey)>
NoCacheInfo      == [some |-> FALSE, key |-> ""]
SomeCacheInfo(k) == [some |-> TRUE, key |-> k]

\* StreamingAnalyzer::new
StreamingAnalyzer_new(cache_info) ==
    [buffer |-> "", pending_events |-> << >>, full_response_buffer |-> "",
     cache_info |-> cache_info]

\* if let Some(delta) = choice.get("delta") { validate_tools(delta) }
check_delta(delta) ==
    IF delta.t = "absent" THEN POLICY_OK ELSE validate_tools(delta)

\* check_choices looking at the first element only
check_choices_first_only(choices, i) ==
    IF i > Len(choices) \/ i > 1 THEN POLICY_OK
    ELSE check_delta(get(choices[i], "delta"))

RECURSIVE check_choices(_, _)

choices_after(choices, i, res) ==
    IF ~res.ok THEN res ELSE check_choices(choices, i + 1)

\* the for loop over choices: the first violation among the delta objects of
\* the elements at or after i
check_choices(choices, i) ==
    IF i > Len(choices) THEN POLICY_OK
    ELSE choices_after(choices, i, check_delta(get(choices[i], "delta")))

choices_of(choices) ==
    IF is_array(choices) THEN check_choices(choices.a, 1) ELSE POLICY_OK

\* StreamingAnalyzer::content_interception
content_interception(json) == choices_of(get(json, "choices"))

\* split_rest forgetting what follows the line
split_rest_clear(buffer, pos) == ""

\* what buffer.split_to(pos + 1) leaves in the buffer
split_rest(buffer, pos) == From(buffer, pos + 1)

\* push_back putting the item at the front
push_front(queue, item) == << item >> \o queue

\* pending_events.push_back(item)
push_back(queue, item) == Append(queue, item)

\* if let Ok(json) = from_str(data) { content_interception(&json) }
check_json(json) ==
    IF json.ok THEN content_interception(json.v) ELSE POLICY_OK

\* the policy outcome of a payload: [DONE] is not parsed
check_data(data) ==
    IF data # "[DONE]" THEN check_json(from_str(data)) ELSE POLICY_OK

RECURSIVE process_buffer(_)

\* a data line with payload data and policy outcome res: a violation is
\* queued and ends the pass, anything else is queued as an event
line_checked(an1, data, res) ==
    IF ~res.ok
    THEN [an1 EXCEPT !.pending_events = push_back(@, ErrItem(res.msg))]
    ELSE process_buffer(
           [an1 EXCEPT !.pending_events = push_back(@, OkEvent(data))])

line_data(an1, data) == line_checked(an1, data, check_data(data))

\* the trimmed line split out of the buffer, an1 being the analyzer after it
line_trimmed(an1, line) ==
    IF line = "" THEN process_buffer(an1)
    ELSE IF starts_with(line, "data: ") THEN line_data(an1, From(line, 7))
    ELSE process_buffer(an1)

\* the loop body for a line feed at pos
line_at(an, pos) ==
    IF pos = 0 THEN an
    ELSE line_trimmed([an EXCEPT !.buffer = split_rest(an.buffer, pos)],
                      trim(SubSeq(an.buffer, 1, pos)))

\* StreamingAnalyzer::process_buffer
process_buffer(an) == line_at(an, position_nl(an.buffer, 1))

\* Poll<Option<Item>> values
Ready(item) == [poll |-> "item", item |-> item]
READY_NONE  == [poll |-> "end", item |-> ErrItem("")]
PENDING     == [poll |-> "pending", item |-> ErrItem("")]

\* extend_from_slice replacing the content
extend_overwrite(buf, bytes) == bytes

\* self.buffer / self.full_response_buffer .extend_from_slice(&bytes)
extend_from_slice(buf, bytes) == buf \o bytes

\* take_left leaving the target in place (as_ref() in place of take())
take_left_kept(cache_info) == cache_info

\* self.cache_info.take(): what is left in the field
take_left(cache_info) == NoCacheInfo

\* the result of one poll_next: the new analyzer, the value returned, whether
\* the inner stream was polled, the cache writes handed to tokio::spawn and
\* the wake-up left pending ("self": cx.waker().wake_by_ref(); "inner": the
\* waker the inner stream registered; "none")
PollResult(an, out, polled, spawn, wake) ==
    [an |-> an, out |-> out, polled |-> polled, spawn |-> spawn, wake |-> wake]

\* if let Some(event) = self.pending_events.pop_front() { Ready(Some(event)) }
pop_ready(an, polled, spawn) ==
    PollResult([an EXCEPT !.pending_events = Tail(@)],
               Ready(Head(an.pending_events)), polled, spawn, "none")

\* after_bytes leaving no wake-up behind its Pending
after_bytes_no_wake(an1) ==
    IF an1.pending_events # << >> THEN pop_ready(an1, TRUE, << >>)
    ELSE PollResult(an1, PENDING, TRUE, << >>, "none")

\* after process_buffer on new bytes: an event, or Pending with a self wake
after_bytes(an1) ==
    IF an1.pending_events # << >> THEN pop_ready(an1, TRUE, << >>)
    ELSE PollResult(an1, PENDING, TRUE, << >>, "self")

\* the cache write spawned at end-of-data when a cache target is held
spawn_of(an1) ==
    IF an1.cache_info.some
    THEN << [key |-> an1.cache_info.key,
             response |-> CachedResponse(200, "text/event-stream",
                                         an1.full_response_buffer)] >>
    ELSE << >>

end_result(an2, spawn) ==
    IF an2.pending_events # << >> THEN pop_ready(an2, TRUE, spawn)
    ELSE PollResult(an2, READY_NONE, TRUE, spawn, "none")

\* after_end taking what is left in the buffer for a last line
after_end_flush(an1) ==
    end_result([process_buffer([an1 EXCEPT !.buffer = @ \o "\n"])
                   EXCEPT !.cache_info = take_left(@)],
               spawn_of(an1))

\* after process_buffer at end-of-data
after_end(an1) ==
    end_result([an1 EXCEPT !.cache_info = take_left(@)], spawn_of(an1))

\* StreamingAnalyzer::poll_next; inner is what self.inner.poll_next returns
\* when it is polled
poll_next(an, inner) ==
    IF an.pending_events # << >> THEN pop_ready(an, FALSE, << >>)
    ELSE IF inner.poll = "item" /\ inner.item.ok THEN
        after_bytes(process_buffer(
            [an EXCEPT
               !.buffer = extend_from_slice(@, inner.item.data),
               !.full_response_buffer =
                   extend_from_slice(@, inner.item.data)]))
    ELSE IF inner.poll = "item" THEN
        PollResult(an, Ready(inner.item), TRUE, << >>, "none")
    ELSE IF inner.poll = "end" THEN after_end(process_buffer(an))
    ELSE PollResult(an, PENDING, TRUE, << >>, "inner")

(***************************************************************************)
(* Route resolver (src/src/routing.rs).                                    *)
(***************************************************************************)
RouteRule(path, target_model, target_url) ==
    [path |-> path, target_model |-> target_model, target_url |-> target_url]

\* find_rule keeping the last rule that the closure accepts
RECURSIVE find_rule_last(_, _, _)
find_rule_last(rules, path, i) ==
    IF i > Len(rules) THEN 0
    ELSE IF find_rule_last(rules, path, i + 1) # 0
    THEN find_rule_last(rules, path, i + 1)
    ELSE IF starts_with(path, rules[i].path) THEN i
    ELSE 0

\* rules.iter().find(..): the index of the first rule at or after i that the
\* closure accepts, 0 when there is none
RECURSIVE find_rule(_, _, _)
find_rule(rules, path, i) ==
    IF i > Len(rules) THEN 0
    ELSE IF starts_with(path, rules[i].path) THEN i
    ELSE find_rule(rules, path, i + 1)

\* Router::resolve
rule_at(rules, i) ==
    IF i = 0 THEN [some |-> FALSE, rule |-> RouteRule("", "", "")]
    ELSE [some |-> TRUE, rule |-> rules[i]]

resolve(rules, path) == rule_at(rules, find_rule(rules, path, 1))

(***************************************************************************)
(* Request gatekeeper (src/src/networking.rs, proxy_handler).              *)
(***************************************************************************)
TEXT_PLAIN   == "text/plain; charset=utf-8"
OCTET_STREAM == "application/octet-stream"

\* an HTTP response: status, header map, body
Response(status, headers, body) ==
    [status |-> status, headers |-> headers, body |-> body]

\* (StatusCode, &str / String).into_response() and String::into_response()
text_response(status, body) ==
    Response(status, "content-type" :> TEXT_PLAIN, body)

\* HeaderName::from_bytes and HeaderValue::from_str both succeed
header_ok(k, v) ==
    /\ k # ""
    /\ \A i \in 1..Len(k) : Ch(k, i) \notin WhiteSpace
    /\ \A i \in 1..Len(v) : Ch(v, i) \notin {"\n", "\r"}

\* hit_headers without the loop over the cached headers
hit_headers_default(cached) == "content-type" :> OCTET_STREAM

\* the headers of the cache-hit response: those of Bytes::into_response with
\* every well-formed cached header inserted over them
hit_headers(cached) ==
    LET base == "content-type" :> OCTET_STREAM
        good == {k \in DOMAIN cached.headers : header_ok(k, cached.headers[k])}
    IN  [k \in DOMAIN base \cup good |->
            IF k \in good THEN cached.headers[k] ELSE base[k]]

\* the cache-hit branch of proxy_handler; StatusCode::from_u16(..).unwrap()
\* panics outside 100..999, the handler then producing no response (status 0)
hit_response(cached) ==
    IF cached.status \in 100..999
    THEN Response(cached.status, hit_headers(cached), cached.body)
    ELSE Response(0, << >>, "")

route_text(rule) ==
    "Routing request to " \o rule.target_url
        \o " (Model: " \o rule.target_model \o ")"

NONE_YET == [some |-> FALSE, out |-> Response(0, << >>, "")]

\* early_response with the policy check left out
early_response_unchecked(req) ==
    IF ~req.readable
    THEN [some |-> TRUE, out |-> text_response(400, "Failed to read body")]
    ELSE NONE_YET

\* if let Err(msg) = validate_tools(&json_body) { return (FORBIDDEN, msg) }
policy_response(res) ==
    IF ~res.ok THEN [some |-> TRUE, out |-> text_response(403, res.msg)]
    ELSE NONE_YET

\* if let Ok(json_body) = serde_json::from_slice(&bytes) { .. }
body_response(json) ==
    IF json.ok THEN policy_response(validate_tools(json.v)) ELSE NONE_YET

\* what proxy_handler does with a request before it first touches the cache:
\* the terminal response of the body-read and policy steps, or none
early_response(req) ==
    IF ~req.readable
    THEN [some |-> TRUE, out |-> text_response(400, "Failed to read body")]
    ELSE body_response(from_str(req.body))

(***************************************************************************)
(* stream_test_handler (src/src/networking.rs) up to the analyzer.         *)
(***************************************************************************)

\* the cache lookup at the head of stream_test_handler: none is made when
\* caching is disabled
stream_cached(en, c, path) ==
    IF en THEN cache_get(c, CacheKey_new(path, ""))
    ELSE [some |-> FALSE, v |-> CachedResponse(0, "", "")]

\* the cache-hit response: cached.body.into_response() with the content type
\* replaced; the cached status is not applied
stream_hit_response(cached) ==
    Response(200, "content-type" :> "text/event-stream", cached.body)

\* stream_cache_info holding a cache target whatever the configuration
stream_cache_info_always(en, path) == SomeCacheInfo(CacheKey_new(path, ""))

\* the cache target handed to StreamingAnalyzer::new
stream_cache_info(en, path) ==
    IF en THEN SomeCacheInfo(CacheKey_new(path, "")) ELSE NoCacheInfo

(***************************************************************************)
(* Authentication layer (src/src/auth.rs).                                 *)
(***************************************************************************)

\* the Authorization header of a request: absent, or a value that is
\* visible ASCII (HeaderValue::to_str succeeds) or is not
NoHeader        == [present |-> FALSE, ascii |-> TRUE, v |-> ""]
Header(v)       == [present |-> TRUE, ascii |-> TRUE, v |-> v]
OpaqueHeader(v) == [present |-> TRUE, ascii |-> FALSE, v |-> v]

\* api_keys.iter().any(|k| k == key)
RECURSIVE any_key(_, _, _)
any_key(keys, key, i) ==
    IF i > Len(keys) THEN FALSE
    ELSE IF keys[i] = key THEN TRUE
    ELSE any_key(keys, key, i + 1)

\* auth_middleware accepting every header with the Bearer prefix
auth_middleware_any_bearer(keys, h) ==
    IF keys = << >> THEN TRUE
    ELSE h.present /\ h.ascii /\ starts_with(h.v, "Bearer ")

\* auth_middleware: TRUE when it calls next.run(req), FALSE when it returns
\* Err(StatusCode::UNAUTHORIZED)
auth_middleware(keys, h) ==
    IF keys = << >> THEN TRUE
    ELSE IF h.present /\ h.ascii /\ starts_with(h.v, "Bearer ")
    THEN any_key(keys, From(h.v, 8), 1)
    ELSE FALSE

\* StatusCode::UNAUTHORIZED.into_response()
UNAUTHORIZED == Response(401, << >>, "")

(***************************************************************************)
(* Upstream byte streams offered to the transducer.                        *)
(***************************************************************************)

\* bound: the longest chunk upstream hands over when it does not hand over
\* everything that is left
MaxChunk == 3

J_A        == "{\"a\":1}"
J_CONTENT  == "{\"choices\":[{\"delta\":{\"content\":\"Hello, \"}}]}"
J_WEATHER  == "{\"choices\":[{\"delta\":{\"tool_calls\":[{\"index\":0,\"function\":{\"name\":\"get_weather\"}}]}}]}"
J_RM_TOOL  == "{\"choices\":[{\"delta\":{\"tool_calls\":[{\"index\":1,\"function\":{\"name\":\"rm_rf\"}}]}}]}"
J_RM_FN    == "{\"choices\":[{\"delta\":{\"function_call\":{\"name\":\"rm_rf\"}}}]}"
J_RM_2ND   == "{\"choices\":[{\"delta\":{}},{\"delta\":{\"function_call\":{\"name\":\"rm_rf\"}}}]}"

\* the formatting closure of stream_test_handler
sse_format(data) ==
    IF data = "[DONE]" THEN "data: [DONE]\n\n" ELSE "data: " \o data \o "\n\n"

\* the fixture of stream_test_handler, one chunk per element
FixtureChunks ==
    << sse_format("{\"choices\":[{\"delta\":{\"content\":\"Hello, \"}}]}"),
       sse_format("{\"choices\":[{\"delta\":{\"content\":\"this \"}}]}"),
       sse_format("{\"choices\":[{\"delta\":{\"content\":\"is \"}}]}"),
       sse_format("{\"choices\":[{\"delta\":{\"content\":\"a \"}}]}"),
       sse_format("{\"choices\":[{\"delta\":{\"content\":\"stream. \"}}]}"),
       sse_format(J_WEATHER),
       sse_format(J_RM_TOOL),
       sse_format("[DONE]") >>

RECURSIVE Concat(_)
Concat(chunks) ==
    IF chunks = << >> THEN "" ELSE Head(chunks) \o Concat(Tail(chunks))

\* the positions at which the chunks of a chunk list end
RECURSIVE CutsOf(_, _)
CutsOf(chunks, base) ==
    IF chunks = << >> THEN {}
    ELSE {base + Len(Head(chunks))}
         \cup CutsOf(Tail(chunks), base + Len(Head(chunks)))

\* an upstream whose chunk boundaries are free (cuts = {}) or fixed
FreeSource(wire)    == [wire |-> wire, cuts |-> {}]
FixedSource(chunks) == [wire |-> Concat(chunks), cuts |-> CutsOf(chunks, 0)]

Sources ==
    { FixedSource(FixtureChunks),
      FreeSource("data: " \o J_A \o "\n\ndata: [DONE]\n\n"),
      FreeSource("data: " \o J_RM_FN \o "\n\ndata: x\ndata: [DONE]\n\n"),
      FreeSource(": ping\r\n  data: hi \r\nid: 7\ndata: \ndata:x\n\ndata: [DONE]"),
      FreeSource("data: " \o J_RM_2ND \o "\ndata: " \o J_RM_TOOL
                     \o "\ndata: " \o J_WEATHER \o "\n") }

\* the path stream_test_handler is mounted on
STREAM_PATH == "/v1/stream_test"

\* the opaque error of a failing upstream
TRANSPORT_FAULT == "upstream transport fault"

(***************************************************************************)
(* State.                                                                  *)
(***************************************************************************)
VARIABLES
    src,         \* the upstream: its bytes and its chunk boundaries
    sent,        \* how many bytes upstream has handed over
    up,          \* upstream: "open", "failed" (it yielded a fault and has
                 \* not been polled since), "ended" (it answered None)
    faulty,      \* whether this upstream may yield a transport fault
    an,          \* the StreamingAnalyzer
    delivered,   \* the items poll_next returned to the consumer, in order
    last,        \* the last poll_next outcome and the wake-up it left
    carried,     \* a chunk has arrived while a partial line was buffered
    consumer,    \* "polling", "finished" (saw end-of-sequence), "dropped"
    tasks,       \* cache writes handed to tokio::spawn and not yet run
    scheduled,   \* how many cache writes this stream has spawned
    cache,       \* the moka cache: key -> CachedResponse
    enabled,     \* CacheConfig.enabled
    rules,       \* the route table of the Router in force
    hs,          \* the proxy_handler invocations in flight, one per slot
    handled,     \* how many requests the server has accepted
    origin,      \* for each cache key, the request whose set stored the entry
    sreq,        \* the latest request to stream_test_handler and its outcome
    api_keys,    \* SecurityConfig.api_keys
    ws,          \* the latest request to ws_handler and its outcome
    probe        \* a value handed to validate_tools on its own, and the result

streamVars == << src, sent, up, faulty, an, delivered, last, carried, consumer,
                 tasks, scheduled, sreq >>
gateVars   == << rules, hs, handled, origin >>
doorVars   == << api_keys, ws, probe >>
vars       == << streamVars, gateVars, doorVars, cache, enabled >>

(***************************************************************************)
(* Requests and route tables offered to the gatekeeper.                    *)
(***************************************************************************)

\* bounds: concurrent proxy_handler invocations, and requests per behaviour
NumHandlers == 2
MaxRequests == 2

Handlers == 1..NumHandlers

B_RM_FN   == "{\"function_call\":{\"name\":\"rm_rf\"}}"
B_RM_TOOL == "{\"tool_calls\":[{\"function\":{\"name\":\"get_weather\"}},{\"function\":{\"name\":\"rm_rf\"}}]}"
B_WEATHER == "{\"tool_calls\":[{\"function\":{\"name\":\"get_weather\"}}]}"

\* a request: its URI path, its body, and whether axum::body::to_bytes(body,
\* 1024 * 1024) succeeds on it (it fails on a body longer than the ceiling,
\* whose content the model keeps up to its padding, and on a broken
\* connection)
Request(path, body, readable) ==
    [path |-> path, body |-> body, readable |-> readable]

\* the last but one shares path ++ body with the forbidden request before it
\* (the http crate accepts the bytes { } " in a path)
Requests ==
    { Request("/a", "b", TRUE),
      Request("/ab", "", TRUE),
      Request("/zz", "", TRUE),
      Request("/a", B_WEATHER, TRUE),
      Request("/a", B_RM_FN, TRUE),
      Request("/a", B_RM_TOOL, TRUE),
      Request("/a" \o SubSeq(B_RM_FN, 1, Len(B_RM_FN) - 1), "}", TRUE),
      Request("/a", B_RM_FN, FALSE) }

RuleTables ==
    { << RouteRule("/ab", "model-b", "http://b"),
         RouteRule("/a", "model-a", "http://a") >>,
      << RouteRule("/a", "model-a", "http://a"),
         RouteRule("/ab", "model-b", "http://b") >> }

NoResponse == Response(0, << >>, "")
NoEntry    == CachedResponse(0, "", "")
NoOrigin   == [path |-> "", body |-> ""]

\* a slot with no request in it
IdleHandler ==
    [pc |-> "idle", req |-> Request("", "", TRUE), key |-> "", text |-> "",
     out |-> NoResponse, ops |-> {}, hit |-> FALSE, entry |-> NoEntry,
     from |-> NoOrigin, rules_at_get |-> << >>]

\* no request to stream_test_handler or to ws_handler has been made
NoStreamRequest ==
    [pc |-> "none", auth |-> NoHeader, out |-> NoResponse, ops |-> {}]
NoWs == [pc |-> "none", auth |-> NoHeader]

\* the cache operations of stream_test_handler before it builds the analyzer
stream_lookup_ops(en) == IF en THEN {"get"} ELSE {}

\* the record of a request that stream_test_handler answers with a stream
Streaming(a) ==
    [pc |-> "streaming", auth |-> a, out |-> NoResponse,
     ops |-> stream_lookup_ops(enabled)]

\* validate_tools is called by the handlers only
NOT_RUN == [ok |-> TRUE, msg |-> "not run"]
NoProbe == [v |-> Absent, res |-> NOT_RUN]

\* the handlers are reached without authentication (no API key configured)
\* and no WebSocket request is made
NoDoor ==
    /\ api_keys = << >>
    /\ ws = NoWs
    /\ probe = NoProbe

NoStream ==
    /\ sreq = NoStreamRequest
    /\ src = FreeSource("")
    /\ sent = 0
    /\ up = "open"
    /\ faulty = FALSE
    /\ an = StreamingAnalyzer_new(NoCacheInfo)
    /\ delivered = << >>
    /\ last = [poll |-> "never", wake |-> "none"]
    /\ carried = FALSE
    /\ consumer = "dropped"
    /\ tasks = << >>
    /\ scheduled = 0

NoRequests ==
    /\ hs = [h \in Handlers |-> IdleHandler]
    /\ handled = 0
    /\ origin = << >>

\* stream_test_handler building the analyzer: cache_info is Some exactly when
\* caching is enabled
Init ==
    /\ src \in Sources
    /\ sent = 0
    /\ up = "open"
    /\ faulty \in BOOLEAN
    /\ enabled \in BOOLEAN
    /\ an = StreamingAnalyzer_new(stream_cache_info(enabled, STREAM_PATH))
    /\ delivered = << >>
    /\ last = [poll |-> "never", wake |-> "none"]
    /\ carried = FALSE
    /\ consumer = "polling"
    /\ tasks = << >>
    /\ scheduled = 0
    /\ cache = << >>
    /\ rules \in RuleTables
    /\ NoRequests
    /\ sreq = Streaming(NoHeader)
    /\ NoDoor

\* the chunk lengths upstream may hand over next
ChunkLens ==
    LET left == Len(src.wire) - sent
    IN  IF src.cuts # {}
        THEN {c - sent : c \in {c \in src.cuts : c > sent /\
                                   \A d \in src.cuts : d > sent => c <= d}}
        ELSE {n \in 1..left : n <= MaxChunk \/ n = left}

\* the effect of a poll_next call with result r
Polled(r, inner, sentNext, upNext) ==
    /\ an' = r.an
    /\ delivered' = IF r.out.poll = "item" THEN Append(delivered, r.out.item)
                    ELSE delivered
    /\ last' = [poll |-> r.out.poll, wake |-> r.wake]
    /\ carried' = (carried \/ (r.polled /\ inner.poll = "item"
                                /\ inner.item.ok /\ an.buffer # ""))
    /\ consumer' = IF r.out.poll = "end" THEN "finished" ELSE consumer
    /\ tasks' = tasks \o r.spawn
    /\ scheduled' = scheduled + Len(r.spawn)
    /\ sent' = IF r.polled THEN sentNext ELSE sent
    /\ up' = IF r.polled THEN upNext ELSE up
    /\ UNCHANGED << src, faulty, cache, enabled, sreq, gateVars, doorVars >>

\* one call of poll_next by the consumer with the inner stream answering
\* inner; sentNext and upNext are the inner stream's state if it is polled
Poll(inner, sentNext, upNext) ==
    /\ consumer # "dropped"
    /\ Polled(poll_next(an, inner), inner, sentNext, upNext)

\* poll_next with events queued: the inner stream is not polled
PollQueued ==
    /\ an.pending_events # << >>
    /\ Poll(PENDING, sent, up)

\* poll_next, the inner stream yielding the next n bytes
PollChunk ==
    /\ an.pending_events = << >>
    /\ up = "open"
    /\ \E n \in ChunkLens :
         Poll(Ready(OkEvent(SubSeq(src.wire, sent + 1, sent + n))),
              sent + n, up)

\* poll_next, the inner stream not being ready
PollNotReady ==
    /\ an.pending_events = << >>
    /\ up = "open"
    /\ Poll(PENDING, sent, up)

\* poll_next, the inner stream yielding a transport fault
PollFault ==
    /\ an.pending_events = << >>
    /\ up = "open"
    /\ faulty
    /\ Poll(Ready(ErrItem(TRANSPORT_FAULT)), sent, "failed")

\* poll_next, the inner stream signalling end-of-data: it has handed over all
\* its bytes, or it failed before; an ended stream keeps answering None
PollEnd ==
    /\ an.pending_events = << >>
    /\ \/ up = "open" /\ sent = Len(src.wire)
       \/ up \in {"failed", "ended"}
    /\ Poll(READY_NONE, sent, "ended")

\* the consumer stops requesting items (client disconnect)
DropConsumer ==
    /\ consumer = "polling"
    /\ consumer' = "dropped"
    /\ UNCHANGED << src, sent, up, faulty, an, delivered, last, carried,
                    tasks, scheduled, sreq, cache, enabled, gateVars,
                    doorVars >>

\* the detached task spawned at end-of-data runs cache.set
CacheWriteTask ==
    /\ tasks # << >>
    /\ cache' = cache_set(cache, Head(tasks).key, Head(tasks).response)
    /\ tasks' = Tail(tasks)
    /\ UNCHANGED << src, sent, up, faulty, an, delivered, last, carried,
                    consumer, scheduled, sreq, enabled, gateVars, doorVars >>

Next ==
    \/ PollQueued
    \/ PollChunk
    \/ PollNotReady
    \/ PollFault
    \/ PollEnd
    \/ DropConsumer
    \/ CacheWriteTask

Spec == Init /\ [][Next]_vars

\* the consumer polls and the inner stream has bytes to hand over: PollChunk
\* is possible
CanPollChunk ==
    /\ consumer # "dropped"
    /\ an.pending_events = << >>
    /\ up = "open"
    /\ sent < Len(src.wire)

\* a step of PollChunk: the inner stream handed bytes over
ChunkStep == sent' > sent

\* the consumer polls and the inner stream is at its end: PollEnd is possible
\* and is not a repetition of the end-of-sequence answer
CanPollEnd ==
    /\ consumer # "dropped"
    /\ an.pending_events = << >>
    /\ \/ up = "open" /\ sent = Len(src.wire)
       \/ up \in {"failed", "ended"}
    /\ ~(up = "ended" /\ last.poll = "end")

\* a step of PollEnd
EndStep ==
    /\ CanPollEnd
    /\ up' = "ended"
    /\ consumer' # "dropped"
    /\ (up # "ended" \/ an' # an \/ last' # last)

\* the transducer with a consumer that is polled again whenever it was woken
\* (Pending is returned with a wake-up requested or registered) and an inner
\* stream that hands over what it has: weak fairness of PollQueued, of
\* PollChunk and of PollEnd, the last two with the enabling condition and
\* the step written out
LiveSpec ==
    /\ Init
    /\ [][Next]_vars
    /\ WF_vars(PollQueued)
    /\ ([]<>(~CanPollChunk) \/ []<><<ChunkStep>>_vars)
    /\ ([]<>(~CanPollEnd) \/ []<><<EndStep>>_vars)

(***************************************************************************)
(* The gatekeeper as a state machine: proxy_handler runs from one await on *)
(* the cache to the next in one step.                                      *)
(***************************************************************************)
GateInit ==
    /\ NoStream
    /\ cache = << >>
    /\ enabled \in BOOLEAN
    /\ rules \in RuleTables
    /\ NoRequests
    /\ NoDoor

\* resolved never going on to cache.set
resolved_no_store(q, m, keyed) ==
    IF m.some
    THEN [q EXCEPT !.pc = "done",
                   !.out = text_response(200, route_text(m.rule))]
    ELSE [q EXCEPT !.pc = "done",
                   !.out = text_response(200, "No matching route found")]

\* the route-resolution tail of proxy_handler for slot record q, m being the
\* rule found: respond at once, or go on to cache.set when a rule matched and
\* a key was computed
resolved(q, m, keyed) ==
    IF m.some /\ keyed
    THEN [q EXCEPT !.pc = "set", !.text = route_text(m.rule)]
    ELSE IF m.some
    THEN [q EXCEPT !.pc = "done",
                   !.out = text_response(200, route_text(m.rule))]
    ELSE [q EXCEPT !.pc = "done",
                   !.out = text_response(200, "No matching route found")]

resolve_tail(r, keyed) ==
    resolved([r EXCEPT !.ops = @ \cup {"resolve"}],
             resolve(rules, r.req.path), keyed)

\* the slot record after the steps that precede the first cache access
received(r, e) ==
    IF e.some THEN [r EXCEPT !.pc = "done", !.out = e.out]
    ELSE IF enabled
    THEN [r EXCEPT !.pc = "get",
                   !.key = CacheKey_new(r.req.path, r.req.body)]
    ELSE resolve_tail(r, FALSE)

\* proxy_handler from its entry to its first cache access: body read, JSON
\* parse and policy check, then (caching disabled) route resolution
GateRecv(h) ==
    /\ hs[h].pc = "idle"
    /\ handled < MaxRequests
    /\ \E req \in Requests :
         hs' = [hs EXCEPT ![h] =
                  received([IdleHandler EXCEPT !.req = req],
                           early_response(req))]
    /\ handled' = handled + 1
    /\ UNCHANGED << streamVars, doorVars, cache, enabled, rules, origin >>

\* the slot record after state.cache.get returned c
looked_up(r, c) ==
    IF c.some
    THEN [r EXCEPT !.pc = "done", !.hit = TRUE, !.entry = c.v,
                   !.from = origin[r.key], !.out = hit_response(c.v)]
    ELSE resolve_tail(r, TRUE)

\* proxy_handler from state.cache.get(&key).await on: a hit returns the
\* cached response, a miss resolves the route
GateGet(h) ==
    /\ hs[h].pc = "get"
    /\ hs' = [hs EXCEPT ![h] =
                looked_up([@ EXCEPT !.ops = @ \cup {"get"},
                                    !.rules_at_get = rules],
                          cache_get(cache, hs[h].key))]
    /\ UNCHANGED << streamVars, doorVars, cache, enabled, rules, handled,
                    origin >>

\* proxy_handler from state.cache.set(key, ..).await to its return
GateSet(h) ==
    /\ hs[h].pc = "set"
    /\ cache' = cache_set(cache, hs[h].key,
                          CachedResponse(200, TEXT_PLAIN, hs[h].text))
    /\ origin' = [k \in DOMAIN origin \cup {hs[h].key} |->
                    IF k = hs[h].key
                    THEN [path |-> hs[h].req.path, body |-> hs[h].req.body]
                    ELSE origin[k]]
    /\ hs' = [hs EXCEPT ![h] =
                [@ EXCEPT !.pc = "done", !.ops = @ \cup {"set"},
                          !.out = text_response(200, hs[h].text)]]
    /\ UNCHANGED << streamVars, doorVars, enabled, rules, handled >>

\* the response has been sent: the slot is free for the next request
GateReturn(h) ==
    /\ hs[h].pc = "done"
    /\ hs' = [hs EXCEPT ![h] = IdleHandler]
    /\ UNCHANGED << streamVars, doorVars, cache, enabled, rules, handled,
                    origin >>

\* moka drops an entry: its time-to-live has passed or capacity is exceeded
Evict ==
    /\ \E k \in DOMAIN cache :
         /\ cache' = [j \in DOMAIN cache \ {k} |-> cache[j]]
         /\ origin' = [j \in DOMAIN origin \ {k} |-> origin[j]]
    /\ UNCHANGED << streamVars, doorVars, enabled, rules, hs, handled >>

\* the same cache is served with another route table (AppState's fields are
\* public and OrchixCache is a cloneable handle on one store)
ChangeRules ==
    /\ \E t \in RuleTables : t # rules /\ rules' = t
    /\ UNCHANGED << streamVars, doorVars, cache, enabled, hs, handled,
                    origin >>

GateNext ==
    \/ \E h \in Handlers : GateRecv(h)
    \/ \E h \in Handlers : GateGet(h)
    \/ \E h \in Handlers : GateSet(h)
    \/ \E h \in Handlers : GateReturn(h)
    \/ Evict
    \/ ChangeRules

GateSpec == GateInit /\ [][GateNext]_vars

(***************************************************************************)
(* The gatekeeper under one route table for its whole life: run_server     *)
(* builds the Router once and nothing in the server replaces its rules.    *)
(***************************************************************************)
FixedTableNext ==
    \/ \E h \in Handlers : GateRecv(h)
    \/ \E h \in Handlers : GateGet(h)
    \/ \E h \in Handlers : GateSet(h)
    \/ \E h \in Handlers : GateReturn(h)
    \/ Evict

FixedTableSpec == GateInit /\ [][FixedTableNext]_vars

(***************************************************************************)
(* validate_tools on its own, over a family of JSON values.                *)
(***************************************************************************)

\* bound: the longest tool_calls array handed to validate_tools
MaxCalls == 2

\* an object with the one member k, or without it when v is None
Obj1(k, v) == IF v = Absent THEN JObj(<< >>) ELSE JObj(k :> v)

\* what may stand where a name is expected
PolicyNames ==
    { JStr("rm_rf"), JStr("drop_db"), JStr("get_weather"), JNum(7), Absent }

\* what may stand as an element of tool_calls
PolicyCalls ==
    { JObj("function" :> Obj1("name", n)) : n \in PolicyNames }
        \cup { JObj("function" :> JStr("rm_rf")),
               JObj("name" :> JStr("rm_rf")),
               JStr("rm_rf") }

SeqsUpTo(S, n) == UNION { [1..k -> S] : k \in 0..n }

\* what may stand as the member tool_calls, None when there is none
PolicyToolCalls ==
    { JArr(a) : a \in SeqsUpTo(PolicyCalls, MaxCalls) }
        \cup { Absent, JStr("rm_rf"),
               JObj("function" :> JObj("name" :> JStr("rm_rf"))) }

\* what may stand as the member function_call, None when there is none
PolicyFunctionCalls ==
    { Obj1("name", n) : n \in PolicyNames }
        \cup { Absent, JStr("rm_rf"),
               JArr(<< JObj("name" :> JStr("rm_rf")) >>) }

\* a request body with the members model, tool_calls and function_call, the
\* last two when given
PolicyBody(tc, fc) ==
    JObj([k \in {"model"}
                  \cup (IF tc = Absent THEN {} ELSE {"tool_calls"})
                  \cup (IF fc = Absent THEN {} ELSE {"function_call"}) |->
            IF k = "tool_calls" THEN tc
            ELSE IF k = "function_call" THEN fc
            ELSE JStr("m")])

PolicyValues ==
    { PolicyBody(tc, fc) : tc \in PolicyToolCalls, fc \in PolicyFunctionCalls }
        \cup { JNull, JStr("tool_calls"),
               JArr(<< PolicyBody(Absent, JObj("name" :> JStr("rm_rf"))) >>) }

PolicyInit ==
    /\ NoStream
    /\ NoRequests
    /\ cache = << >>
    /\ enabled = FALSE
    /\ rules = << >>
    /\ api_keys = << >>
    /\ ws = NoWs
    /\ probe \in { [v |-> v, res |-> NOT_RUN] : v \in PolicyValues }

\* one call of Interceptor::validate_tools
Validate ==
    /\ probe.res = NOT_RUN
    /\ probe' = [probe EXCEPT !.res = validate_tools(probe.v)]
    /\ UNCHANGED << streamVars, gateVars, cache, enabled, api_keys, ws >>

PolicyNext == Validate

PolicySpec == PolicyInit /\ [][PolicyNext]_vars

(* The server as a whole (run_server): the three routes behind the         *)
(* authentication layer, one request being served at a time.               *)
(***************************************************************************)

\* the API key lists the server is configured with
KeyLists == { << >>, << "k3", "k1" >> }

\* the Authorization headers requests arrive with
AuthHeaders ==
    { NoHeader, Header("Bearer k1"), Header("Bearer k2"), Header("bearer k1"),
      Header("Bearer k1x"), Header("Basic k1"), OpaqueHeader("Bearer k1") }

\* the requests made on the fallback route
ServerRequests ==
    { Request("/a", "b", TRUE),
      Request("/zz", "", TRUE),
      Request("/a", B_RM_FN, TRUE) }

\* a request with its Authorization header
WithAuth(req, a) ==
    [path |-> req.path, body |-> req.body, readable |-> req.readable,
     auth |-> a]

ServerInit ==
    /\ NoStream
    /\ cache = << >>
    /\ enabled \in BOOLEAN
    /\ rules \in RuleTables
    /\ NoRequests
    /\ api_keys \in KeyLists
    /\ ws = NoWs
    /\ probe = NoProbe

\* no request is being served
Quiet ==
    /\ \A h \in Handlers : hs[h].pc = "idle"
    /\ consumer \in {"finished", "dropped"}
    /\ ws.pc # "open"

\* the slot record of a request on the fallback route: rejected by
\* auth_middleware, or handed to proxy_handler
admitted(req, ok) ==
    IF ok
    THEN received([IdleHandler EXCEPT !.req = req], early_response(req))
    ELSE [IdleHandler EXCEPT !.req = req, !.pc = "done", !.out = UNAUTHORIZED]

\* a request on the fallback route, up to proxy_handler's first cache access
\* (the slots all being free, the first is taken)
ServeProxy ==
    /\ Quiet
    /\ handled < MaxRequests
    /\ \E r \in ServerRequests, a \in AuthHeaders :
         hs' = [hs EXCEPT ![1] =
                  admitted(WithAuth(r, a), auth_middleware(api_keys, a))]
    /\ handled' = handled + 1
    /\ UNCHANGED << streamVars, doorVars, cache, enabled, rules, origin >>

\* the stream variables as a request to /v1/stream_test leaves them
StreamReset(q, s, a, c) ==
    /\ sreq' = q
    /\ src' = s
    /\ sent' = 0
    /\ up' = "open"
    /\ faulty' = FALSE
    /\ an' = a
    /\ delivered' = << >>
    /\ last' = [poll |-> "never", wake |-> "none"]
    /\ carried' = FALSE
    /\ consumer' = c
    /\ scheduled' = 0

\* a request answered without a stream
StreamAnswered(q) ==
    StreamReset(q, FreeSource(""), StreamingAnalyzer_new(NoCacheInfo),
                "dropped")

\* stream_test_handler with the result c of its cache lookup
stream_test_handler(a, c) ==
    IF c.some
    THEN StreamAnswered([pc |-> "hit", auth |-> a,
                         out |-> stream_hit_response(c.v), ops |-> {"get"}])
    ELSE StreamReset(Streaming(a), FixedSource(FixtureChunks),
                     StreamingAnalyzer_new(
                         stream_cache_info(enabled, STREAM_PATH)),
                     "polling")

\* a GET request on /v1/stream_test
ServeStream ==
    /\ Quiet
    /\ handled < MaxRequests
    /\ \E a \in AuthHeaders :
         IF auth_middleware(api_keys, a)
         THEN stream_test_handler(a, stream_cached(enabled, cache, STREAM_PATH))
         ELSE StreamAnswered([pc |-> "rejected", auth |-> a,
                              out |-> UNAUTHORIZED, ops |-> {}])
    /\ handled' = handled + 1
    /\ UNCHANGED << tasks, cache, enabled, rules, hs, origin, doorVars >>

\* a WebSocket upgrade request on /ws: rejected, or handed to ws_handler
ServeWs ==
    /\ Quiet
    /\ handled < MaxRequests
    /\ \E a \in AuthHeaders :
         ws' = [pc |-> IF auth_middleware(api_keys, a) THEN "open"
                       ELSE "rejected",
                auth |-> a]
    /\ handled' = handled + 1
    /\ UNCHANGED << streamVars, cache, enabled, rules, hs, origin, api_keys,
                    probe >>

\* handle_socket returns: the peer closed the socket or a send failed
WsClose ==
    /\ ws.pc = "open"
    /\ ws' = [ws EXCEPT !.pc = "closed"]
    /\ UNCHANGED << streamVars, gateVars, cache, enabled, api_keys, probe >>

\* the fixture completes one line per chunk and never fails: no event stays
\* queued from one poll to the next and no transport fault is yielded
ServerNext ==
    \/ ServeProxy
    \/ \E h \in Handlers : GateGet(h)
    \/ \E h \in Handlers : GateSet(h)
    \/ \E h \in Handlers : GateReturn(h)
    \/ ServeStream
    \/ ServeWs
    \/ WsClose
    \/ PollChunk
    \/ PollNotReady
    \/ PollEnd
    \/ DropConsumer
    \/ CacheWriteTask
    \/ Evict
    \/ ChangeRules

ServerSpec == ServerInit /\ [][ServerNext]_vars

(***************************************************************************)
(* Vocabulary of the properties.                                           *)
(***************************************************************************)

\* the newline-terminated lines of a byte string, in order
RECURSIVE CompleteLines(_)
CompleteLines(bytes) ==
    LET p == position_nl(bytes, 1)
    IN  IF p = 0 THEN << >>
        ELSE << SubSeq(bytes, 1, p) >> \o CompleteLines(From(bytes, p + 1))

\* a line that, trimmed, begins with the data prefix, and its payload
IsDataLine(line) == starts_with(trim(line), "data: ")
Payload(line)    == From(trim(line), 7)

\* a delta object carrying a forbidden name, in tool_calls[].function.name or
\* in function_call.name (also what the gatekeeper rejects in a body)
CarriesForbidden(d) ==
    \/ LET tc == get(d, "tool_calls")
       IN  /\ is_array(tc)
           /\ \E k \in 1..Len(tc.a) :
                LET n == get(get(tc.a[k], "function"), "name")
                IN  is_str(n) /\ n.s \in forbidden_tools
    \/ LET n == get(get(d, "function_call"), "name")
       IN  is_str(n) /\ n.s \in forbidden_tools

\* a payload that is JSON with a choices element whose delta carries a
\* forbidden name
HasForbiddenDelta(payload) ==
    LET j  == from_str(payload)
        ch == get(j.v, "choices")
    IN  /\ j.ok
        /\ is_array(ch)
        /\ \E i \in 1..Len(ch.a) : CarriesForbidden(get(ch.a[i], "delta"))

ViolationMessages ==
    {tool_message(n) : n \in forbidden_tools}
        \cup {function_message(n) : n \in forbidden_tools}

IsFrame(item)       == item.ok
IsPolicyFault(item) == ~item.ok /\ item.data \in ViolationMessages
IsTransportFault(item) == ~item.ok /\ item.data = TRANSPORT_FAULT

RECURSIVE DataOf(_)
DataOf(items) ==
    IF items = << >> THEN << >> ELSE << Head(items).data >> \o DataOf(Tail(items))

\* the payloads of the frames among items, in order
Frames(items) == DataOf(SelectSeq(items, IsFrame))

IsViolatingLine(line) == IsDataLine(line) /\ HasForbiddenDelta(Payload(line))
IsPassingLine(line)   == IsDataLine(line) /\ ~HasForbiddenDelta(Payload(line))

RECURSIVE PayloadsOf(_)
PayloadsOf(lines) ==
    IF lines = << >> THEN << >>
    ELSE << Payload(Head(lines)) >> \o PayloadsOf(Tail(lines))

\* the payloads of the data lines of bytes that pass the policy, in order
PassingPayloads(bytes) ==
    PayloadsOf(SelectSeq(CompleteLines(bytes), IsPassingLine))

IsPrefix(a, b) == Len(a) <= Len(b) /\ SubSeq(b, 1, Len(a)) = a

\* the bytes upstream has handed over
Received == SubSeq(src.wire, 1, sent)

\* the consumer polled to the end of a stream that ended without a fault
CleanEnd ==
    /\ consumer = "finished"
    /\ up = "ended"
    /\ sent = Len(src.wire)
    /\ \A i \in 1..Len(delivered) : ~IsTransportFault(delivered[i])

\* the items a consumer receives when upstream hands over the given chunks
\* and then ends, the consumer polling until end-of-sequence
RECURSIVE Drive(_, _, _)
Drive(a, chunks, out) ==
    LET inner == IF chunks = << >> THEN READY_NONE
                 ELSE Ready(OkEvent(Head(chunks)))
        r     == poll_next(a, inner)
    IN  IF r.out.poll = "end" THEN out
        ELSE Drive(r.an,
                   IF r.polled /\ chunks # << >> THEN Tail(chunks) ELSE chunks,
                   IF r.out.poll = "item" THEN Append(out, r.out.item) ELSE out)

(***************************************************************************)
(* Properties of the streaming transducer.                                 *)
(***************************************************************************)

\* C1: no frame queued for or delivered to the consumer has a payload that is
\* JSON with a choices element whose delta carries a forbidden name; when the
\* consumer has polled to the end, every line with such a payload has
\* produced one fault item carrying a violation message.
C1_NoForbiddenFrame ==
    /\ \A i \in 1..Len(delivered) :
         IsFrame(delivered[i]) => ~HasForbiddenDelta(delivered[i].data)
    /\ \A i \in 1..Len(an.pending_events) :
         IsFrame(an.pending_events[i])
            => ~HasForbiddenDelta(an.pending_events[i].data)
    /\ consumer = "finished" =>
         /\ Len(SelectSeq(delivered, IsPolicyFault))
              = Len(SelectSeq(CompleteLines(Received), IsViolatingLine))
         /\ \A i \in 1..Len(delivered) :
              IsFrame(delivered[i]) \/ IsPolicyFault(delivered[i])
                 \/ IsTransportFault(delivered[i])

\* a stream with a forbidden delta in the second choices element was polled
\* to the end: its fault was delivered and other frames were too
C1_Witness ==
    /\ consumer = "finished"
    /\ \E i \in 1..Len(delivered) :
         delivered[i] = ErrItem(function_message("rm_rf"))
    /\ \E i \in 1..Len(delivered) : IsFrame(delivered[i])
    /\ starts_with(src.wire, "data: " \o J_RM_2ND)

\* C2: a policy-violation fault item is the last item the transducer
\* delivers: nothing, frame or fault, is delivered after it.
C2_ViolationIsTerminal ==
    \A i \in 1..Len(delivered) :
        IsPolicyFault(delivered[i]) => i = Len(delivered)

\* C3: a consumer that polled a cleanly ended stream to the end has received
\* the items it receives when the same bytes arrive as one chunk.
C3_ChunkingInvariance ==
    CleanEnd =>
        delivered = Drive(StreamingAnalyzer_new(NoCacheInfo),
                          << src.wire >>, << >>)

\* a freely chunked stream was polled to its clean end, a chunk having ended
\* inside a line, and several items were delivered
C3_Witness ==
    /\ CleanEnd
    /\ src.cuts = {}
    /\ carried
    /\ Len(delivered) >= 2

\* C4: the frames delivered or queued are, in order and once each, the
\* payloads of the data lines received that pass the policy, and a consumer
\* that polled to the end has received all of them; blank lines and lines
\* without the data prefix yield no frame.
C4_OrderPreserved ==
    /\ IsPrefix(Frames(delivered \o an.pending_events),
                PassingPayloads(Received))
    /\ consumer = "finished" => Frames(delivered) = PassingPayloads(Received)

\* a stream with blank and non-data lines was polled to the end and
\* delivered several frames, fewer than it has lines
C4_Witness ==
    /\ consumer = "finished"
    /\ Len(Frames(delivered)) >= 2
    /\ Len(CompleteLines(src.wire)) > Len(delivered)
    /\ carried

\* C5: a cache write is spawned at most once per stream, and only in the
\* step in which upstream signals end-of-data; once the consumer is dropped
\* none is spawned, and the cache changes only by a spawned write.
C5_CacheWriteOnce ==
    [][ /\ scheduled' # scheduled =>
             /\ scheduled = 0 /\ scheduled' = 1
             /\ up # "ended" /\ up' = "ended"
             /\ consumer # "dropped"
        /\ tasks' # tasks => scheduled' = 1
        /\ cache' # cache => (scheduled = 1 /\ tasks # << >>)
      ]_vars

\* the stream ended, was polled again after end-of-sequence, and its one
\* cache write ran
C5_Witness ==
    /\ scheduled = 1
    /\ tasks = << >>
    /\ CacheKey_new(STREAM_PATH, "") \in DOMAIN cache
    /\ consumer = "finished"
    /\ last.poll = "end"

\* C6: the accumulator holds exactly the bytes received so far, and every
\* cache write spawned or run carries all bytes of the stream with status 200
\* and content type text/event-stream.
C6_AccumulatorIsRaw ==
    /\ an.full_response_buffer = Received
    /\ \A i \in 1..Len(tasks) :
         tasks[i].response = CachedResponse(200, "text/event-stream", Received)
    /\ \A k \in DOMAIN cache :
         cache[k] = CachedResponse(200, "text/event-stream", Received)
    /\ (scheduled > 0 /\ CleanEnd) => Received = src.wire

\* a stream with filtered lines and a dangling partial last line, received
\* in pieces, was cached whole
C6_Witness ==
    /\ CleanEnd
    /\ carried
    /\ position_nl(src.wire, 1) > 0
    /\ Ch(src.wire, Len(src.wire)) # "\n"
    /\ \E k \in DOMAIN cache : cache[k].body = src.wire

\* C7: the pending line buffer holds no line terminator.
C7_BufferHasNoLine == position_nl(an.buffer, 1) = 0

(***************************************************************************)
(* Properties of the request gatekeeper.                                   *)
(***************************************************************************)

\* a body that parses as JSON and holds a forbidden tool or function call
ForbiddenBody(body) ==
    LET j == from_str(body)
    IN  j.ok /\ CarriesForbidden(j.v)

\* the request in slot h was answered 403 with a violation message and
\* touched neither the cache nor the router
ShortCircuited(h) ==
    /\ hs[h].pc = "done"
    /\ hs[h].out.status = 403
    /\ hs[h].out.body \in ViolationMessages
    /\ hs[h].ops = {}

\* C8 as stated: every request whose body is JSON with a forbidden call is
\* answered 403 with the violation message, without cache lookup, cache
\* store or route resolution.
C8_ForbiddenAlways403 ==
    \A h \in Handlers :
        (hs[h].pc # "idle" /\ ForbiddenBody(hs[h].req.body))
            => ShortCircuited(h)

\* C8 amended: every request whose body was read within the size ceiling and
\* is JSON with a forbidden call is answered 403 with the violation message,
\* without cache lookup, cache store or route resolution.
C8_ReadForbidden403 ==
    \A h \in Handlers :
        (hs[h].pc # "idle" /\ hs[h].req.readable
            /\ ForbiddenBody(hs[h].req.body))
            => ShortCircuited(h)

\* a forbidden request was answered 403 while the cache held an entry under
\* its own (path, body) key
C8_Witness ==
    \E h \in Handlers :
        /\ hs[h].req.readable
        /\ ForbiddenBody(hs[h].req.body)
        /\ ShortCircuited(h)
        /\ CacheKey_new(hs[h].req.path, hs[h].req.body) \in DOMAIN cache

\* C9: a cache hit is served only from an entry stored for a request with
\* the same path and the same body (requests that differ in path or body
\* have different keys).
C9_HitFromSameRequest ==
    \A h \in Handlers :
        hs[h].hit =>
            /\ hs[h].from.path = hs[h].req.path
            /\ hs[h].from.body = hs[h].req.body

\* C10: a cache hit returns the stored status, headers and body and neither
\* resolves a route nor stores; no step of a handler and no change of the
\* route table removes a cache entry.
C10_HitVerbatim ==
    [][ /\ \A h \in Handlers :
             hs'[h].hit =>
                /\ hs'[h].pc = "done"
                /\ hs'[h].out.status = hs'[h].entry.status
                /\ hs'[h].out.headers = hs'[h].entry.headers
                /\ hs'[h].out.body = hs'[h].entry.body
                /\ hs'[h].ops = {"get"}
        /\ (hs' # hs \/ rules' # rules) =>
             /\ DOMAIN cache \subseteq DOMAIN cache'
             /\ \A k \in DOMAIN cache :
                  cache'[k] = cache[k] \/ \E h \in Handlers :
                      hs[h].pc = "set" /\ hs[h].key = k /\ hs'[h].pc = "done"
      ]_vars

\* a hit was served from an entry that the same path stored under another
\* route table: under the table in force the request resolves elsewhere
C10_Witness ==
    \E h \in Handlers :
        /\ hs[h].hit
        /\ hs[h].from.path = hs[h].req.path
        /\ hs[h].out.body = hs[h].entry.body
        /\ route_text(resolve(hs[h].rules_at_get, hs[h].req.path).rule)
              # hs[h].out.body

\* the request in slot h went through the cache lookup, missed, and has been
\* answered
MissedAndAnswered(h) ==
    /\ hs[h].pc = "done"
    /\ "get" \in hs[h].ops
    /\ ~hs[h].hit

\* C11 as stated: with caching enabled every request that missed the cache,
\* a request to an unmatched path included, has stored an entry under its key
\* by the time it is answered.
C11_EveryMissPopulates ==
    \A h \in Handlers : MissedAndAnswered(h) => "set" \in hs[h].ops

\* C11 amended: with caching enabled a request that misses the cache and
\* matches a route rule stores, before it is answered, an entry under its key
\* equal to the outcome it returns; one that matches no rule is answered "No
\* matching route found" and stores nothing; and a request that finds an
\* entry under its key returns that entry's status, headers and body whatever
\* the route table then is.
C11_MatchedMissPopulates ==
    [][ \A h \in Handlers :
          /\ (hs[h].pc = "get" /\ hs'[h] # hs[h]
                /\ hs[h].key \notin DOMAIN cache) =>
                /\ cache' = cache
                /\ IF resolve(rules, hs[h].req.path).some
                   THEN hs'[h].pc = "set"
                   ELSE /\ hs'[h].pc = "done"
                        /\ hs'[h].out.body = "No matching route found"
                        /\ "set" \notin hs'[h].ops
          /\ (hs[h].pc = "set" /\ hs'[h].pc = "done") =>
                /\ hs[h].key \in DOMAIN cache'
                /\ hs'[h].out = Response(cache'[hs[h].key].status,
                                         cache'[hs[h].key].headers,
                                         cache'[hs[h].key].body)
                /\ hs'[h].out.body
                     = route_text(resolve(hs[h].rules_at_get,
                                          hs[h].req.path).rule)
          /\ (hs[h].pc = "get" /\ hs'[h] # hs[h]
                /\ hs[h].key \in DOMAIN cache) =>
                /\ hs'[h].pc = "done"
                /\ hs'[h].out = Response(cache[hs[h].key].status,
                                         cache[hs[h].key].headers,
                                         cache[hs[h].key].body)
      ]_vars

\* the second of two requests with the same path and body was answered from
\* the entry the first stored, after the route table changed so that the
\* path now resolves to another rule
C11_Witness ==
    \E h \in Handlers :
        /\ handled = 2
        /\ hs[h].hit
        /\ hs[h].from = [path |-> hs[h].req.path, body |-> hs[h].req.body]
        /\ hs[h].out.status = 200
        /\ resolve(hs[h].rules_at_get, hs[h].req.path).some
        /\ hs[h].out.body
             # route_text(resolve(hs[h].rules_at_get, hs[h].req.path).rule)

(***************************************************************************)
(* Properties of the server as a whole.                                    *)
(***************************************************************************)

\* no route rule's prefix is a prefix of the path
Unmatched(path) ==
    \A i \in 1..Len(rules) : ~starts_with(path, rules[i].path)

\* the request in slot h passed the authentication layer, the body read and
\* the policy check
ReachedRouting(h) ==
    /\ hs[h].pc # "idle"
    /\ auth_middleware(api_keys, hs[h].req.auth)
    /\ ~early_response(hs[h].req).some

\* C12: with caching disabled no request, on the fallback route or on the
\* streaming route, looks the cache up, stores into it or schedules a store,
\* and the cache stays empty; a request on the fallback route that reaches
\* route resolution with a path matching no rule is answered 200 with "No
\* matching route found".
C12_DisabledTouchesNoCache ==
    ~enabled =>
        /\ cache = << >>
        /\ tasks = << >>
        /\ scheduled = 0
        /\ sreq.ops = {}
        /\ \A h \in Handlers :
             /\ hs[h].ops \cap {"get", "set"} = {}
             /\ (ReachedRouting(h) /\ Unmatched(hs[h].req.path)) =>
                   /\ hs[h].pc = "done"
                   /\ hs[h].out
                        = text_response(200, "No matching route found")

\* with caching disabled the fixture was streamed to its end, and then a
\* request to an unmatched path was answered
C12_Witness ==
    /\ ~enabled
    /\ sreq.pc = "streaming"
    /\ consumer = "finished"
    /\ Len(delivered) = Len(FixtureChunks)
    /\ \E h \in Handlers :
         /\ ReachedRouting(h)
         /\ Unmatched(hs[h].req.path)
         /\ hs[h].out.body = "No matching route found"

(***************************************************************************)
(* Properties of the route resolver and of the policy.                     *)
(***************************************************************************)

\* the indices of the rules of table t whose prefix is a prefix of path
MatchingRules(t, path) ==
    {i \in 1..Len(t) :
        /\ Len(t[i].path) <= Len(path)
        /\ SubSeq(path, 1, Len(t[i].path)) = t[i].path}

\* slot h resolves its route in this step
Resolves(h) == "resolve" \notin hs[h].ops /\ "resolve" \in hs'[h].ops

\* the text proxy_handler made of the rule it resolved
RoutedText(r) == IF r.pc = "set" THEN r.text ELSE r.out.body

\* C13: a handler that resolves its route gets the rule of smallest index
\* among those whose prefix is a prefix of the path, gets none exactly when
\* there is no such rule, and leaves the route table as it was.
C13_FirstMatch ==
    [][ \A h \in Handlers :
          Resolves(h) =>
             /\ rules' = rules
             /\ IF MatchingRules(rules, hs'[h].req.path) = {}
                THEN /\ hs'[h].pc = "done"
                     /\ hs'[h].out.body = "No matching route found"
                ELSE \E i \in MatchingRules(rules, hs'[h].req.path) :
                       /\ \A j \in MatchingRules(rules, hs'[h].req.path) :
                            i <= j
                       /\ RoutedText(hs'[h]) = route_text(rules[i])
      ]_vars

\* the path /ab was resolved to the rule /a standing before the rule /ab
C13_Witness ==
    \E h \in Handlers :
        /\ hs[h].req.path = "/ab"
        /\ "resolve" \in hs[h].ops
        /\ rules[1].path = "/a"
        /\ MatchingRules(rules, "/ab") = {1, 2}
        /\ RoutedText(hs[h]) = route_text(rules[1])

\* a value that is an object with member k
HasMember(v, k) == v.t = "obj" /\ k \in DOMAIN v.f

\* an object whose member name is a string of the forbidden set
NamesForbidden(v) ==
    /\ HasMember(v, "name")
    /\ v.f["name"].t = "str"
    /\ v.f["name"].s \in forbidden_tools

\* the indices of the elements of the array member tool_calls of v whose
\* function.name is forbidden
ForbiddenCalls(v) ==
    IF HasMember(v, "tool_calls") /\ v.f["tool_calls"].t = "arr"
    THEN {i \in 1..Len(v.f["tool_calls"].a) :
            /\ HasMember(v.f["tool_calls"].a[i], "function")
            /\ NamesForbidden(v.f["tool_calls"].a[i].f["function"])}
    ELSE {}

\* the member function_call of v names a forbidden function
ForbiddenFunction(v) ==
    HasMember(v, "function_call") /\ NamesForbidden(v.f["function_call"])

\* C14: validate_tools returns a violation exactly when tool_calls is an
\* array with an element whose function.name is a forbidden string, or
\* function_call is an object whose name is a forbidden string; with a
\* forbidden tool call the violation is the tool message naming the first
\* such element, otherwise it is the function message; any other value,
\* with members absent or of another type, yields Ok.
C14_ValidateIff ==
    probe.res # NOT_RUN =>
        /\ probe.res.ok
             <=> (ForbiddenCalls(probe.v) = {} /\ ~ForbiddenFunction(probe.v))
        /\ ForbiddenCalls(probe.v) # {} =>
             \E i \in ForbiddenCalls(probe.v) :
                /\ \A j \in ForbiddenCalls(probe.v) : i <= j
                /\ probe.res.msg
                     = tool_message(probe.v.f["tool_calls"].a[i]
                                        .f["function"].f["name"].s)
        /\ (ForbiddenCalls(probe.v) = {} /\ ForbiddenFunction(probe.v)) =>
             probe.res.msg
                = function_message(probe.v.f["function_call"].f["name"].s)
        /\ probe.res.ok => probe.res.msg = ""

\* a body with two forbidden tool calls of different names and a forbidden
\* function_call was rejected with the tool message naming the first call
C14_Witness ==
    /\ probe.res # NOT_RUN
    /\ ~probe.res.ok
    /\ ForbiddenCalls(probe.v) = {1, 2}
    /\ probe.v.f["tool_calls"].a[2].f["function"].f["name"].s = "rm_rf"
    /\ ForbiddenFunction(probe.v)
    /\ probe.res.msg = tool_message("drop_db")

(***************************************************************************)
(* Properties of concurrent gatekeeper requests.                           *)
(***************************************************************************)

\* v is a response that a set of proxy_handler writes under key k: the
\* routing text of a rule matching the path of the request that stored it
WrittenWhole(k, v) ==
    /\ k \in DOMAIN origin
    /\ k = CacheKey_new(origin[k].path, origin[k].body)
    /\ \E t \in RuleTables : \E i \in 1..Len(t) :
         /\ starts_with(origin[k].path, t[i].path)
         /\ v = CachedResponse(200, TEXT_PLAIN, route_text(t[i]))

\* slot h performs its cache.get, or its cache.set, in this step
Gets(h) == hs[h].pc = "get" /\ hs'[h] # hs[h]
Sets(h) == hs[h].pc = "set" /\ hs'[h].pc = "done"

\* C15: a set stores its own response whole under its key, replacing what
\* was there and touching no other key, so that the entry left by several
\* sets is that of the last; a get changes nothing and returns absent when
\* the key has no entry and otherwise the entry, which is a response some
\* set wrote whole for that key; no other step of a handler changes the
\* cache (handlers of the same request may all miss and all set).
C15_LastSetWins ==
    [][ /\ \A h \in Handlers :
             Sets(h) =>
                /\ DOMAIN cache' = DOMAIN cache \cup {hs[h].key}
                /\ cache'[hs[h].key]
                     = CachedResponse(200, TEXT_PLAIN, hs[h].text)
                /\ hs'[h].out.body = hs[h].text
                /\ \A k \in DOMAIN cache \ {hs[h].key} : cache'[k] = cache[k]
        /\ \A h \in Handlers :
             Gets(h) =>
                /\ cache' = cache
                /\ hs'[h].hit <=> hs[h].key \in DOMAIN cache
                /\ hs'[h].hit =>
                      /\ hs'[h].entry = cache[hs[h].key]
                      /\ WrittenWhole(hs[h].key, hs'[h].entry)
        /\ (hs' # hs /\ \A h \in Handlers : ~Sets(h)) => cache' = cache
      ]_vars

\* two handlers of the same request both missed and both stored, with
\* different responses, and the cache holds the response of one of them
C15_Witness ==
    \E h \in Handlers : \E g \in Handlers \ {h} :
        /\ hs[h].req = hs[g].req
        /\ hs[h].pc = "done" /\ hs[g].pc = "done"
        /\ "set" \in hs[h].ops /\ "set" \in hs[g].ops
        /\ hs[h].out.body # hs[g].out.body
        /\ hs[h].key \in DOMAIN cache
        /\ cache[hs[h].key].body = hs[h].out.body

(***************************************************************************)
(* Further properties of the streaming transducer.                         *)
(***************************************************************************)

\* poll_next forwards a transport fault in this step
ForwardsFault ==
    /\ Len(delivered') = Len(delivered) + 1
    /\ IsTransportFault(delivered'[Len(delivered')])

\* a transport fault has been delivered
FaultDelivered ==
    \E i \in 1..Len(delivered) : IsTransportFault(delivered[i])

\* C16: the step that forwards a transport fault leaves the pending line
\* buffer, the accumulator and the cache target as they were and schedules
\* no cache write, and once a transport fault has been delivered no further
\* item is delivered.
C16_FaultIsTerminal ==
    [][ /\ ForwardsFault =>
             /\ an' = an
             /\ tasks' = tasks
             /\ scheduled' = scheduled
        /\ FaultDelivered => delivered' = delivered
      ]_vars

\* this step is a call of poll_next
Polls == an' # an \/ last' # last \/ sent' # sent \/ up' # up

\* C17: what the transducer delivers and holds queued is bounded by the
\* lines received (one item per complete line at most, and the transport
\* fault); it returns end-of-sequence only when upstream has signalled
\* end-of-data and the queue is empty; a poll answered Pending leaves the
\* wake-up the task itself requested when a chunk arrived and completed no
\* frame, and the one the upstream registered when the upstream was not
\* ready; and a consumer that goes on being polled while upstream hands over
\* its chunks and ends receives end-of-sequence.
C17_FiniteAndLive ==
    /\ [](Len(delivered) + Len(an.pending_events)
             <= Len(CompleteLines(Received)) + (IF up = "open" THEN 0 ELSE 1))
    /\ [](last.poll = "end" => (up = "ended" /\ an.pending_events = << >>))
    /\ [][ (Polls /\ last'.poll = "pending") =>
              /\ consumer' # "finished"
              /\ IF sent' # sent THEN last'.wake = "self"
                 ELSE last'.wake = "inner" ]_vars
    /\ <>(consumer \in {"finished", "dropped"})

\* a stream that arrived in pieces, with chunks that completed no line, was
\* polled to end-of-sequence
C17_Witness ==
    /\ last.poll = "end"
    /\ consumer = "finished"
    /\ carried
    /\ sent = Len(src.wire)
    /\ Len(delivered) >= 2
    /\ ~FaultDelivered

\* the position of the last line terminator of bytes at or before i, 0 when
\* there is none
RECURSIVE last_nl(_, _)
last_nl(bytes, i) ==
    IF i = 0 THEN 0
    ELSE IF Ch(bytes, i) = "\n" THEN i
    ELSE last_nl(bytes, i - 1)

\* the bytes after the last line terminator, and those up to it
Dangling(bytes) == From(bytes, last_nl(bytes, Len(bytes)) + 1)
Terminated(bytes) == SubSeq(bytes, 1, last_nl(bytes, Len(bytes)))

CarriesKey(a) ==
    /\ a.present
    /\ a.ascii
    /\ \E i \in 1..Len(api_keys) : a.v = "Bearer " \o api_keys[i]

\* a request with header a is let through
MayPass(a) == api_keys = << >> \/ CarriesKey(a)

\* a request arrives in this step, with header a
Arrives(a) ==
    /\ handled' = handled + 1
    /\ \/ \E h \in Handlers : hs'[h] # hs[h] /\ hs'[h].req.auth = a
       \/ sreq' # sreq /\ sreq'.auth = a
       \/ ws' # ws /\ ws'.auth = a

\* C19: a request on the fallback route, on /v1/stream_test or on /ws is
\* handed to its handler exactly when no API key is configured or its
\* Authorization header is Bearer followed by a configured key; any other
\* request is answered 401 with an empty body, having looked up or stored
\* nothing in the cache, resolved no route and started no stream, and the
\* step that rejects it changes neither the cache nor the pending cache
\* writes nor the route table.
C19_AuthGate ==
    /\ [](/\ \A h \in Handlers :
               hs[h].pc # "idle" =>
                  IF MayPass(hs[h].req.auth)
                  THEN hs[h].out.status # 401
                  ELSE /\ hs[h].pc = "done"
                       /\ hs[h].out = UNAUTHORIZED
                       /\ hs[h].ops = {}
          /\ sreq.pc \in {"streaming", "hit"} => MayPass(sreq.auth)
          /\ sreq.pc = "rejected" =>
                /\ ~MayPass(sreq.auth)
                /\ sreq.out = UNAUTHORIZED
                /\ sreq.ops = {}
                /\ consumer = "dropped"
          /\ ws.pc \in {"open", "closed"} => MayPass(ws.auth)
          /\ ws.pc = "rejected" => ~MayPass(ws.auth))
    /\ [][ \A a \in AuthHeaders :
             (Arrives(a) /\ ~MayPass(a)) =>
                /\ cache' = cache
                /\ tasks' = tasks
                /\ rules' = rules
                /\ origin' = origin ]_vars

\* with API keys configured, a stream request carrying a configured key was
\* served to its end, and then a request with a forbidden body whose key
\* only begins with a configured key was answered 401
C19_Witness ==
    /\ api_keys # << >>
    /\ sreq.pc = "streaming"
    /\ sreq.auth = Header("Bearer k1")
    /\ consumer = "finished"
    /\ \E h \in Handlers :
         /\ hs[h].pc = "done"
         /\ hs[h].req.auth = Header("Bearer k1x")
         /\ ForbiddenBody(hs[h].req.body)
         /\ hs[h].out = UNAUTHORIZED

(***************************************************************************)
(* Properties of the cached streams.                                       *)
(***************************************************************************)

\* bytes holding a complete data line whose payload carries a forbidden call
HoldsViolation(bytes) ==
    \E i \in 1..Len(CompleteLines(bytes)) :
        IsViolatingLine(CompleteLines(bytes)[i])

\* the transducer has produced a policy-violation fault for this stream
ViolationProduced ==
    \/ \E i \in 1..Len(delivered) : IsPolicyFault(delivered[i])
    \/ \E i \in 1..Len(an.pending_events) : IsPolicyFault(an.pending_events[i])

\* C20: no cache write is scheduled for a stream on which the transducer
\* produced a policy-violation fault, no cache entry and no pending cache
\* write holds a line with a forbidden call, and no cache hit on the
\* streaming route returns one.
C20_ViolatedNeverCached ==
    /\ ViolationProduced => scheduled = 0
    /\ \A i \in 1..Len(tasks) : ~HoldsViolation(tasks[i].response.body)
    /\ \A k \in DOMAIN cache : ~HoldsViolation(cache[k].body)
    /\ sreq.pc = "hit" => ~HoldsViolation(sreq.out.body)

\* a request on the streaming route was answered from the cache with bytes
\* that hold the forbidden call
ViolationReplayed == sreq.pc = "hit" /\ HoldsViolation(sreq.out.body)

(***************************************************************************)
(* Properties of the gatekeeper with and without its cache.                *)
(***************************************************************************)

\* what proxy_handler answers to req when no cache is consulted: the early
\* response if there is one, else the outcome of route resolution
MissOutcome(req) ==
    IF early_response(req).some
    THEN early_response(req).out
    ELSE resolved([IdleHandler EXCEPT !.req = req],
                  resolve(rules, req.path), FALSE).out

\* C21: under a fixed route table, the status and body returned for every
\* request are those the handler computes for that request's own path and
\* body without a cache, whether caching is enabled or not.
C21_CacheTransparent ==
    \A h \in Handlers :
        hs[h].pc = "done" =>
            /\ hs[h].out.status = MissOutcome(hs[h].req).status
            /\ hs[h].out.body = MissOutcome(hs[h].req).body

\* a request was answered from the cache with the routing text of another
\* path, while its own path resolves to a different rule
ForeignHit ==
    \E h \in Handlers :
        /\ hs[h].pc = "done"
        /\ hs[h].hit
        /\ hs[h].from.path # hs[h].req.path
        /\ hs[h].out.body # MissOutcome(hs[h].req).body

====
